---- MODULE Spec2Model ----
(***************************************************************************)
(* Shamzam: the catalogue service (add_track, remove_track, list_tracks)   *)
(* and the recognition service (recognize_fragment) over the shared SQLite *)
(* table "tracks".  One HTTP request is in flight at a time: it is         *)
(* received, handled by its route's handler and answered.  The provider    *)
(* call of the recognition handler is the one blocking point inside a      *)
(* handler, so that handler is two steps: up to requests.post, and from    *)
(* the provider's reply to the response.                                   *)
(*                                                                         *)
(* Strings are sequences of characters.  "U+00C9" and "U+00E9" stand for   *)
(* the capital and the small letter e with acute accent.                   *)
(***************************************************************************)
EXTENDS Integers, Sequences, FiniteSets, TLC

VARIABLES
    tracks,     \* the rows of the table "tracks"
    seq,        \* the row of sqlite_sequence for "tracks": the largest rowid ever used
    icu,        \* whether the SQLite library in use was built with the ICU extension
    assigned,   \* history: the ids INSERT has assigned, in order
    removed,    \* history: the ids a Remove has deleted
    req,        \* the request in hand (once answered: its route, not the body of a POST)
    pc,         \* "idle", "handling", "awaiting" (the provider), "replied"
    reply,      \* the outcome of requests.post for the request in hand
    resp,       \* the response to the last answered request
    calls,      \* provider calls and store queries made for the request in hand
    threads,    \* concurrent serving: the request each server thread has in hand
    started,    \* concurrent serving: the number of requests accepted so far
    added       \* history of concurrent serving: the rows whose Add was answered 201

vars == <<tracks, seq, icu, assigned, removed, req, pc, reply, resp, calls,
          threads, started, added>>

\* the state of concurrent serving
concVars == <<threads, started, added>>

\* the state of serving one request at a time
seqVars == <<req, pc, reply, resp, calls>>

----------------------------------------------------------------------------
(* Bounds *)

\* largest id the AUTOINCREMENT counter may reach
MaxSeq == 2

\* most whitespace characters put before or after a word of a request
MaxPad == 1

\* an id far above any assigned one
FarId == 999999

\* requests served at the same time
NumThreads == 2

\* requests accepted in a run of concurrent serving
MaxRequests == 4

----------------------------------------------------------------------------
(* Strings *)

Whitespace == {" "}

E_upper == "U+00C9"

E_lower == "U+00E9"

\* what a catalogue client types between the padding
Words == { <<>>, <<"a", "b">>, <<"A", "b">>, <<E_upper>> }

\* what the provider recognizes
RecognizedWords == { <<"a", "B">>, <<"A", "b">>, <<E_lower>> }

RECURSIVE Pad(_)
Pad(n) == IF n = 0 THEN <<>> ELSE <<" ">> \o Pad(n - 1)

\* a word as a client sends it: bare, or padded with MaxPad spaces on either side
RawStrings == { Pad(l) \o w \o Pad(r) : l \in {0, MaxPad}, r \in {0, MaxPad}, w \in Words }

RECURSIVE lstrip(_)
lstrip(s) == IF s # <<>> /\ Head(s) \in Whitespace THEN lstrip(Tail(s)) ELSE s

RECURSIVE rstrip(_)
rstrip(s) ==
    IF s # <<>> /\ s[Len(s)] \in Whitespace THEN rstrip(SubSeq(s, 1, Len(s) - 1)) ELSE s

\* a strip that forgets the leading side
strip_trailing_only(s) == rstrip(s)

\* str.strip()
strip(s) == rstrip(lstrip(s))

\* the lower-case form of a character, for every letter
FoldChar(c) ==
    CASE c = "A" -> "a"
      [] c = "B" -> "b"
      [] c = E_upper -> E_lower
      [] OTHER -> c

\* two strings are equal up to letter case
CaseFold(s) == [i \in 1..Len(s) |-> FoldChar(s[i])]

\* SQLite's built-in lower(): ASCII letters only
LowerChar(c) ==
    CASE c = "A" -> "a"
      [] c = "B" -> "b"
      [] OTHER -> c

\* LOWER(X) in a statement: the built-in function, unless the library carries
\* the ICU extension, which overloads it for all letters
LOWER(s) == [i \in 1..Len(s) |-> IF icu THEN FoldChar(s[i]) ELSE LowerChar(s[i])]

----------------------------------------------------------------------------
(* JSON values of the fields "title" and "artist" *)

Absent == [kind |-> "absent", s |-> <<>>]

Null == [kind |-> "null", s |-> <<>>]

Str(s) == [kind |-> "str", s |-> s]

IsStr(v) == v.kind = "str"

----------------------------------------------------------------------------
(* The table "tracks" and the statements the handlers run on it *)

Row(id, title, artist) == [id |-> id, title |-> title, artist |-> artist]

Ids(rows) == { r.id : r \in rows }

Max(S) == CHOOSE x \in S : \A y \in S : y <= x

Min(S) == CHOOSE x \in S : \A y \in S : x <= y

\* a rowid chosen as for a plain INTEGER PRIMARY KEY: one above the largest present
NextRowid_max_present(rows, sq) == IF rows = {} THEN 1 ELSE Max(Ids(rows)) + 1

\* INTEGER PRIMARY KEY AUTOINCREMENT: one above the largest rowid the table ever held
NextRowid(rows, sq) == Max({sq} \cup Ids(rows)) + 1

\* SELECT id FROM tracks, without its WHERE clause
SelectById_any(rows, track_id) == rows

\* SELECT id FROM tracks WHERE id = ?
SelectById(rows, track_id) == { r \in rows : r.id = track_id }

\* DELETE FROM tracks WHERE id <= ?
DeleteById_upto(rows, track_id) == { r \in rows : r.id > track_id }

\* DELETE FROM tracks WHERE id = ?
DeleteById(rows, track_id) == { r \in rows : r.id # track_id }

\* the rows of a SELECT in the order the table is scanned (by rowid)
RECURSIVE InRowidOrder(_)
InRowidOrder(rows) ==
    IF rows = {} THEN <<>>
    ELSE LET first == CHOOSE r \in rows : r.id = Min(Ids(rows))
         IN  <<first>> \o InRowidOrder(rows \ {first})

\* SELECT id, title, artist FROM tracks, and the list built from its rows
SelectAll(rows) == InRowidOrder(rows)

\* a WHERE clause that joins the two comparisons with OR
Matches_either(r, title, artist) ==
    /\ IsStr(title) \/ IsStr(artist)
    /\ \/ IsStr(title) /\ LOWER(r.title) = LOWER(title.s)
       \/ IsStr(artist) /\ LOWER(r.artist) = LOWER(artist.s)

\* WHERE LOWER(title) = LOWER(?) AND LOWER(artist) = LOWER(?); a NULL parameter
\* makes its comparison NULL, which selects no row
Matches(r, title, artist) ==
    /\ IsStr(title)
    /\ IsStr(artist)
    /\ LOWER(r.title) = LOWER(title.s)
    /\ LOWER(r.artist) = LOWER(artist.s)

SelectMatching(rows, title, artist) == { r \in rows : Matches(r, title, artist) }

\* a fetch that takes a result of several rows for no result
FetchOne_if_single(rows) == IF Cardinality(rows) # 1 THEN <<>> ELSE <<InRowidOrder(rows)[1]>>

\* cursor.fetchone(): the first row of the result, none if it is empty
FetchOne(rows) == IF rows = {} THEN <<>> ELSE <<InRowidOrder(rows)[1]>>

----------------------------------------------------------------------------
(* Requests, provider replies and responses *)

NoRequest == [op |-> "none"]

\* the JSON body of POST /catalog/tracks
AddBodies ==
    { [title |-> t, artist |-> a] :
        t \in {Absent, Null} \cup { Str(s) : s \in RawStrings },
        a \in {Absent, Null} \cup { Str(s) : s \in RawStrings } }

\* the id in the path of DELETE /catalog/tracks/<id>
RemoveIds == (-1 .. MaxSeq + 1) \cup {FarId}

NoFile == [present |-> FALSE, filename |-> "", size |-> 0]

\* the part "file" of the form-data of POST /recognition
Files ==
    {NoFile} \cup
    { [present |-> TRUE, filename |-> f, size |-> n] : f \in {"", "f.wav"}, n \in {0, 1} }

NoResult == [kind |-> "absent", title |-> Absent, artist |-> Absent]

NullResult == [kind |-> "null", title |-> Absent, artist |-> Absent]

RecognizedValues == {Absent, Null} \cup { Str(s) : s \in RecognizedWords }

Results ==
    {NoResult, NullResult} \cup
    { [kind |-> "object", title |-> t, artist |-> a] :
        t \in RecognizedValues, a \in RecognizedValues }

NoReply == [kind |-> "none", status |-> "", result |-> NoResult, error |-> "absent"]

Failure(kind) == [kind |-> kind, status |-> "", result |-> NoResult, error |-> "absent"]

\* what requests.post and the body it brings can turn out to be
Replies ==
    { Failure(k) : k \in {"network_error", "timeout", "http_error", "malformed"} } \cup
    { [kind |-> "json", status |-> "error", result |-> NoResult, error |-> e] :
        e \in {"absent", "object"} } \cup
    { [kind |-> "json", status |-> "success", result |-> r, error |-> "absent"] :
        r \in Results }

NoResponse == [op |-> "none", status |-> 0, msg |-> "", exception |-> "", body |-> <<>>]

Response(op, status, msg, body) ==
    [op |-> op, status |-> status, msg |-> msg, exception |-> "", body |-> body]

\* an exception no handler catches: Flask answers 500
Unhandled(op, exception) ==
    [op |-> op, status |-> 500, msg |-> "Internal Server Error",
     exception |-> exception, body |-> <<>>]

NoCalls == [provider |-> 0, store |-> 0]

\* the threads of the servers (app.run serves each request in a thread of its own)
Threads == 1..NumThreads

\* a thread with no request in hand
IdleThread == [pc |-> "idle", req |-> NoRequest, reply |-> NoReply, resp |-> NoResponse,
               row |-> <<>>]

----------------------------------------------------------------------------
(* The state after init_db() on a new database file *)

Init ==
    /\ tracks = {}
    /\ seq = 0
    /\ icu \in BOOLEAN
    /\ assigned = <<>>
    /\ removed = {}
    /\ req = NoRequest
    /\ pc = "idle"
    /\ reply = NoReply
    /\ resp = NoResponse
    /\ calls = NoCalls
    /\ threads = [c \in Threads |-> IdleThread]
    /\ started = 0
    /\ added = {}

----------------------------------------------------------------------------
(* A client sends a request *)

Receive(r) ==
    /\ req' = r
    /\ pc' = "handling"
    /\ reply' = NoReply
    /\ resp' = NoResponse
    /\ calls' = NoCalls
    /\ UNCHANGED <<tracks, seq, icu, assigned, removed, concVars>>

PostTrack ==
    /\ pc = "idle"
    /\ seq < MaxSeq
    /\ \E data \in AddBodies : Receive([op |-> "add", data |-> data])

DeleteTrack ==
    /\ pc = "idle"
    /\ \E track_id \in RemoveIds : Receive([op |-> "remove", track_id |-> track_id])

GetTracks ==
    /\ pc = "idle"
    /\ Receive([op |-> "list"])

PostRecognition ==
    /\ pc = "idle"
    /\ \E file \in Files : Receive([op |-> "recognize", file |-> file])

\* what stays known of a request once it is answered: its route, not the body of a POST
Answered(r) == IF r.op \in {"add", "recognize"} THEN [op |-> r.op] ELSE r

Respond(r) ==
    /\ resp' = r
    /\ req' = Answered(req)
    /\ pc' = "idle"

----------------------------------------------------------------------------
(* catalog_service.py *)

add_track ==
    /\ pc = "handling"
    /\ req.op = "add"
    /\ LET data == req.data
       IN  IF data.title = Absent \/ data.artist = Absent
           THEN /\ Respond(Response("add", 400, "Missing title or artist", <<>>))
                /\ UNCHANGED <<tracks, seq, assigned>>
           ELSE IF ~IsStr(data.title) \/ ~IsStr(data.artist)
           THEN \* None has no strip()
                /\ Respond(Unhandled("add", "AttributeError"))
                /\ UNCHANGED <<tracks, seq, assigned>>
           ELSE LET title == strip(data.title.s)
                    artist == strip(data.artist.s)
                    id == NextRowid(tracks, seq)
                IN  IF title = <<>> \/ artist = <<>>
                    THEN /\ Respond(Response("add", 400, "Invalid title or artist", <<>>))
                         /\ UNCHANGED <<tracks, seq, assigned>>
                    ELSE /\ tracks' = tracks \cup {Row(id, title, artist)}
                         /\ seq' = id
                         /\ assigned' = Append(assigned, id)
                         /\ Respond(Response("add", 201, "Track created successfully", <<>>))
    /\ UNCHANGED <<icu, removed, reply, calls, concVars>>

\* the converter <int:track_id> of the route matches digits only
IntConverter(track_id) == track_id >= 0

remove_track ==
    /\ pc = "handling"
    /\ req.op = "remove"
    /\ IF ~IntConverter(req.track_id)
       THEN \* no route matches: the handler does not run
            /\ Respond(Response("remove", 404, "Not Found", <<>>))
            /\ UNCHANGED <<tracks, removed>>
       ELSE IF SelectById(tracks, req.track_id) = {}
       THEN /\ Respond(Response("remove", 404, "Track not found", <<>>))
            /\ UNCHANGED <<tracks, removed>>
       ELSE /\ tracks' = DeleteById(tracks, req.track_id)
            /\ removed' = removed \cup {req.track_id}
            /\ Respond(Response("remove", 200, "Track removed successfully", <<>>))
    /\ UNCHANGED <<seq, icu, assigned, reply, calls, concVars>>

list_tracks ==
    /\ pc = "handling"
    /\ req.op = "list"
    /\ Respond(Response("list", 200, "", SelectAll(tracks)))
    /\ UNCHANGED <<tracks, seq, icu, assigned, removed, reply, calls, concVars>>

----------------------------------------------------------------------------
(* recognition_service.py *)

EmptyObject == [kind |-> "object", title |-> Absent, artist |-> Absent]

\* result.get("result") or {}: the default also replaces a null
Recognized_or_default(result) ==
    IF result.kind \in {"absent", "null"} THEN EmptyObject ELSE result

\* result.get("result", {}): the default stands in for a missing key only
Recognized(result) == IF result.kind = "absent" THEN EmptyObject ELSE result

\* recognize_fragment up to requests.post
recognize_fragment_request ==
    /\ pc = "handling"
    /\ req.op = "recognize"
    /\ IF ~req.file.present
       THEN /\ Respond(Response("recognize", 400, "No file part in the request", <<>>))
            /\ UNCHANGED calls
       ELSE IF req.file.filename = ""
       THEN /\ Respond(Response("recognize", 400, "No file selected", <<>>))
            /\ UNCHANGED calls
       ELSE /\ calls' = [calls EXCEPT !.provider = @ + 1]
            /\ pc' = "awaiting"
            /\ UNCHANGED <<req, resp>>
    /\ UNCHANGED <<tracks, seq, icu, assigned, removed, reply, concVars>>

\* requests.post returns or raises, within its timeout
AuddReplies ==
    /\ pc = "awaiting"
    /\ \E r \in Replies : reply' = r
    /\ pc' = "replied"
    /\ UNCHANGED <<tracks, seq, icu, assigned, removed, req, resp, calls, concVars>>

\* a handler that adds the recognized track to the catalogue when it is not there
recognize_fragment_response_adding ==
    /\ pc = "replied"
    /\ req.op = "recognize"
    /\ reply.kind = "json"
    /\ reply.status = "success"
    /\ reply.result.kind = "object"
    /\ IsStr(reply.result.title)
    /\ IsStr(reply.result.artist)
    /\ SelectMatching(tracks, reply.result.title, reply.result.artist) = {}
    /\ seq < MaxSeq
    /\ LET row == Row(NextRowid(tracks, seq), reply.result.title.s, reply.result.artist.s)
       IN  /\ tracks' = tracks \cup {row}
           /\ seq' = row.id
           /\ assigned' = Append(assigned, row.id)
           /\ calls' = [calls EXCEPT !.store = @ + 1]
           /\ Respond(Response("recognize", 200, "", <<row>>))
    /\ UNCHANGED <<icu, removed, reply, concVars>>

\* recognize_fragment from the outcome of requests.post on
recognize_fragment_response ==
    /\ pc = "replied"
    /\ req.op = "recognize"
    /\ IF reply.kind \in {"network_error", "timeout", "http_error"}
       THEN /\ Respond(Response("recognize", 500, "Error calling Audd.io", <<>>))
            /\ UNCHANGED calls
       ELSE IF reply.kind = "malformed"
       THEN \* response.json() raises outside the try block
            /\ Respond(Unhandled("recognize", "JSONDecodeError"))
            /\ UNCHANGED calls
       ELSE IF reply.status = "success"
       THEN LET recognized == Recognized(reply.result)
            IN  IF recognized.kind # "null"
                THEN LET row == FetchOne(SelectMatching(tracks, recognized.title,
                                                        recognized.artist))
                     IN  /\ calls' = [calls EXCEPT !.store = @ + 1]
                         /\ IF row # <<>>
                            THEN Respond(Response("recognize", 200, "", row))
                            ELSE Respond(Response("recognize", 404,
                                                  "No matching track in catalogue", <<>>))
                ELSE /\ Respond(Response("recognize", 404, "Track not recognized", <<>>))
                     /\ UNCHANGED calls
       ELSE IF reply.error = "object"
       THEN /\ Respond(Response("recognize", 404, "error_message", <<>>))
            /\ UNCHANGED calls
       ELSE \* result.get("error") is None, which has no get()
            /\ Respond(Unhandled("recognize", "AttributeError"))
            /\ UNCHANGED calls
    /\ UNCHANGED <<tracks, seq, icu, assigned, removed, reply, concVars>>

----------------------------------------------------------------------------

Next ==
    \/ PostTrack
    \/ DeleteTrack
    \/ GetTracks
    \/ PostRecognition
    \/ add_track
    \/ remove_track
    \/ list_tracks
    \/ recognize_fragment_request
    \/ AuddReplies
    \/ recognize_fragment_response

Spec == Init /\ [][Next]_vars

----------------------------------------------------------------------------
(* Concurrent serving.  Each request runs in a thread of its own with a    *)
(* connection of its own; the threads share the table.  A handler is cut   *)
(* where another connection can act between two of its statements: an     *)
(* INSERT or DELETE with its commit is one step, a SELECT is one step.     *)

ThreadAddBodies ==
    { [title |-> Str(s), artist |-> Str(s)] : s \in {<<" ", "a", "b">>, <<" ">>} }

ThreadRemoveIds == 1..MaxSeq

ThreadFile == [present |-> TRUE, filename |-> "f.wav", size |-> 1]

ThreadReplies ==
    { [kind |-> "json", status |-> "success", result |-> r, error |-> "absent"] :
        r \in {NullResult,
               [kind |-> "object", title |-> Str(<<"a", "B">>), artist |-> Str(<<"a", "B">>)]} }

\* the Adds accepted that have not run their INSERT yet
PendingInserts == { c \in Threads : threads[c].pc = "handling" /\ threads[c].req.op = "add" }

Accept(c, r) ==
    /\ threads[c].pc = "idle"
    /\ started < MaxRequests
    /\ started' = started + 1
    /\ threads' = [threads EXCEPT ![c] = [IdleThread EXCEPT !.pc = "handling", !.req = r]]
    /\ UNCHANGED <<tracks, seq, icu, assigned, removed, added, seqVars>>

ThreadPostTrack(c) ==
    /\ seq + Cardinality(PendingInserts) < MaxSeq
    /\ \E data \in ThreadAddBodies : Accept(c, [op |-> "add", data |-> data])

ThreadDeleteTrack(c) ==
    /\ threads[c].pc = "idle"
    /\ \E track_id \in ThreadRemoveIds : Accept(c, [op |-> "remove", track_id |-> track_id])

ThreadGetTracks(c) ==
    /\ threads[c].pc = "idle"
    /\ Accept(c, [op |-> "list"])

ThreadPostRecognition(c) ==
    /\ threads[c].pc = "idle"
    /\ Accept(c, [op |-> "recognize", file |-> ThreadFile])

\* the handler of thread c returns r
Answer(c, r) == threads' = [threads EXCEPT ![c].pc = "idle", ![c].resp = r]

\* the handler of thread c goes on to its next statement
Goto(c, label) == threads' = [threads EXCEPT ![c].pc = label]

\* a transaction that is never committed: closing the connection rolls it back
Commit_missing(rows, changed) == rows

\* db.commit(): the other connections see the table as the transaction left it
Commit(rows, changed) == changed

\* add_track through db.commit()
thread_add_track_commit(c) ==
    /\ threads[c].pc = "handling"
    /\ threads[c].req.op = "add"
    /\ LET data == threads[c].req.data
       IN  IF data.title = Absent \/ data.artist = Absent
           THEN /\ Answer(c, Response("add", 400, "Missing title or artist", <<>>))
                /\ UNCHANGED <<tracks, seq, assigned>>
           ELSE IF ~IsStr(data.title) \/ ~IsStr(data.artist)
           THEN /\ Answer(c, Unhandled("add", "AttributeError"))
                /\ UNCHANGED <<tracks, seq, assigned>>
           ELSE LET title == strip(data.title.s)
                    artist == strip(data.artist.s)
                    id == NextRowid(tracks, seq)
                IN  IF title = <<>> \/ artist = <<>>
                    THEN /\ Answer(c, Response("add", 400, "Invalid title or artist", <<>>))
                         /\ UNCHANGED <<tracks, seq, assigned>>
                    ELSE /\ tracks' = Commit(tracks, tracks \cup {Row(id, title, artist)})
                         /\ seq' = id
                         /\ assigned' = Append(assigned, id)
                         /\ threads' = [threads EXCEPT ![c].pc = "inserted",
                                                       ![c].row = <<Row(id, title, artist)>>]
    /\ UNCHANGED <<icu, removed, started, added, seqVars>>

\* add_track: return 201
thread_add_track_return(c) ==
    /\ threads[c].pc = "inserted"
    /\ Answer(c, Response("add", 201, "Track created successfully", <<>>))
    /\ added' = added \cup { threads[c].row[i] : i \in DOMAIN threads[c].row }
    /\ UNCHANGED <<tracks, seq, icu, assigned, removed, started, seqVars>>

\* remove_track through the SELECT and its test
thread_remove_track_select(c) ==
    /\ threads[c].pc = "handling"
    /\ threads[c].req.op = "remove"
    /\ IF ~IntConverter(threads[c].req.track_id)
       THEN Answer(c, Response("remove", 404, "Not Found", <<>>))
       ELSE IF SelectById(tracks, threads[c].req.track_id) = {}
       THEN Answer(c, Response("remove", 404, "Track not found", <<>>))
       ELSE Goto(c, "selected")
    /\ UNCHANGED <<tracks, seq, icu, assigned, removed, started, added, seqVars>>

\* remove_track from the DELETE on
thread_remove_track_delete(c) ==
    /\ threads[c].pc = "selected"
    /\ tracks' = Commit(tracks, DeleteById(tracks, threads[c].req.track_id))
    /\ removed' = removed \cup (Ids(tracks) \ Ids(tracks'))
    /\ Answer(c, Response("remove", 200, "Track removed successfully", <<>>))
    /\ UNCHANGED <<seq, icu, assigned, started, added, seqVars>>

thread_list_tracks(c) ==
    /\ threads[c].pc = "handling"
    /\ threads[c].req.op = "list"
    /\ Answer(c, Response("list", 200, "", SelectAll(tracks)))
    /\ UNCHANGED <<tracks, seq, icu, assigned, removed, started, added, seqVars>>

\* recognize_fragment up to requests.post
thread_recognize_fragment_request(c) ==
    /\ threads[c].pc = "handling"
    /\ threads[c].req.op = "recognize"
    /\ IF ~threads[c].req.file.present
       THEN Answer(c, Response("recognize", 400, "No file part in the request", <<>>))
       ELSE IF threads[c].req.file.filename = ""
       THEN Answer(c, Response("recognize", 400, "No file selected", <<>>))
       ELSE Goto(c, "awaiting")
    /\ UNCHANGED <<tracks, seq, icu, assigned, removed, started, added, seqVars>>

ThreadAuddReplies(c) ==
    /\ threads[c].pc = "awaiting"
    /\ \E r \in ThreadReplies :
         threads' = [threads EXCEPT ![c].pc = "replied", ![c].reply = r]
    /\ UNCHANGED <<tracks, seq, icu, assigned, removed, started, added, seqVars>>

\* recognize_fragment from the outcome of requests.post on
thread_recognize_fragment_response(c) ==
    /\ threads[c].pc = "replied"
    /\ LET r == threads[c].reply
       IN  IF r.kind \in {"network_error", "timeout", "http_error"}
           THEN Answer(c, Response("recognize", 500, "Error calling Audd.io", <<>>))
           ELSE IF r.kind = "malformed"
           THEN Answer(c, Unhandled("recognize", "JSONDecodeError"))
           ELSE IF r.status = "success"
           THEN LET recognized == Recognized(r.result)
                IN  IF recognized.kind # "null"
                    THEN LET row == FetchOne(SelectMatching(tracks, recognized.title,
                                                            recognized.artist))
                         IN  IF row # <<>>
                             THEN Answer(c, Response("recognize", 200, "", row))
                             ELSE Answer(c, Response("recognize", 404,
                                                     "No matching track in catalogue", <<>>))
                    ELSE Answer(c, Response("recognize", 404, "Track not recognized", <<>>))
           ELSE IF r.error = "object"
           THEN Answer(c, Response("recognize", 404, "error_message", <<>>))
           ELSE Answer(c, Unhandled("recognize", "AttributeError"))
    /\ UNCHANGED <<tracks, seq, icu, assigned, removed, started, added, seqVars>>

NextThreads ==
    \E c \in Threads :
        \/ ThreadPostTrack(c)
        \/ ThreadDeleteTrack(c)
        \/ ThreadGetTracks(c)
        \/ ThreadPostRecognition(c)
        \/ thread_add_track_commit(c)
        \/ thread_add_track_return(c)
        \/ thread_remove_track_select(c)
        \/ thread_remove_track_delete(c)
        \/ thread_list_tracks(c)
        \/ thread_recognize_fragment_request(c)
        \/ ThreadAuddReplies(c)
        \/ thread_recognize_fragment_response(c)

SpecThreads == Init /\ [][NextThreads]_vars

----------------------------------------------------------------------------
(* Vocabulary of the properties *)

Range(f) == { f[i] : i \in DOMAIN f }

IsWhitespaceOnly(s) == \A i \in 1..Len(s) : s[i] \in Whitespace

\* t is s without its leading and trailing whitespace
IsTrimOf(t, s) ==
    \E l \in 0..Len(s), r \in 0..Len(s) :
        /\ l + Len(t) + r = Len(s)
        /\ t = SubSeq(s, l + 1, Len(s) - r)
        /\ IsWhitespaceOnly(SubSeq(s, 1, l))
        /\ IsWhitespaceOnly(SubSeq(s, Len(s) - r + 1, Len(s)))
        /\ t # <<>> => (t[1] \notin Whitespace /\ t[Len(t)] \notin Whitespace)

\* a field of an Add body that is missing, null or empty after trimming
IsBlank(v) == ~IsStr(v) \/ IsWhitespaceOnly(v.s)

Handling(op) == pc = "handling" /\ req.op = op

EqualUpToCase(s, t) == CaseFold(s) = CaseFold(t)

\* the provider answered with a recognized (title, artist) pair
RecognizedPair(r) ==
    /\ r.kind = "json"
    /\ r.status = "success"
    /\ r.result.kind = "object"
    /\ IsStr(r.result.title)
    /\ IsStr(r.result.artist)

\* the stored tracks equal to the recognized pair up to letter case
Catalogued(rows, r) ==
    { t \in rows : /\ EqualUpToCase(t.title, r.result.title.s)
                   /\ EqualUpToCase(t.artist, r.result.artist.s) }

\* thread c returns from its handler in this step
Returns(c, op) ==
    /\ threads[c].req.op = op
    /\ threads[c].pc # "idle"
    /\ threads'[c].pc = "idle"

\* the tracks whose Add was answered 201 and which no Remove has deleted
Present == { t \in added : t.id \notin removed }

----------------------------------------------------------------------------
(* C1: a successful Add of a title and an artist that are both non-empty   *)
(* after trimming makes List return the tracks it returned before plus     *)
(* exactly one entry, which holds the trimmed title and artist and an id   *)
(* that no track was ever given before.                                    *)

C1_AddThenList ==
    [][
    ( /\ Handling("add")
      /\ ~IsBlank(req.data.title)
      /\ ~IsBlank(req.data.artist)
      /\ resp'.status = 201 )
    => LET before == SelectAll(tracks)
           after == SelectAll(tracks')
       IN  /\ Len(after) = Len(before) + 1
           /\ Range(before) \subseteq Range(after)
           /\ \E i \in 1..Len(after) :
                /\ after[i] \notin Range(before)
                /\ IsTrimOf(after[i].title, req.data.title.s)
                /\ IsTrimOf(after[i].artist, req.data.artist.s)
                /\ after[i].id \notin Range(assigned)
    ]_vars

\* an Add succeeded on a table that had lost a track before
C1_Witness ==
    /\ pc = "idle"
    /\ resp.op = "add"
    /\ resp.status = 201
    /\ removed # {}
    /\ \E t \in tracks : t.id = assigned[Len(assigned)]

----------------------------------------------------------------------------
(* C2: an Add whose title or artist is missing (absent key or null value)  *)
(* or empty after trimming is answered 400, and the stored tracks are      *)
(* unchanged by it.                                                        *)

C2_BlankAddRejected ==
    [][
    ( /\ Handling("add")
      /\ IsBlank(req.data.title) \/ IsBlank(req.data.artist) )
    => /\ resp'.status = 400
       /\ tracks' = tracks
    ]_vars

----------------------------------------------------------------------------
(* C3: once an Add has assigned id k and a Remove(k) has succeeded, every  *)
(* later Remove(k) is answered 404, and no later Add assigns k again.      *)

C3_RemovedStaysRemoved ==
    [][
    /\ ( Handling("remove") /\ req.track_id \in removed ) => resp'.status = 404
    /\ ( Handling("add") /\ resp'.status = 201 )
           => assigned'[Len(assigned')] \notin removed
    ]_vars

\* a Remove of an id removed before was answered 404 after a later Add
C3_Witness ==
    /\ pc = "idle"
    /\ req.op = "remove"
    /\ req.track_id \in removed
    /\ resp.status = 404
    /\ \E t \in tracks : t.id > req.track_id

----------------------------------------------------------------------------
(* C4: the ids assigned by Add are pairwise distinct and strictly          *)
(* increasing in the order of assignment, also after the track with the    *)
(* largest id was removed or the table was emptied.                        *)

----------------------------------------------------------------------------
(* C5: a Remove of an id that no Add ever assigned (negative ids and ids   *)
(* far above the assigned ones included) is answered 404 and leaves the    *)
(* stored tracks unchanged.                                                *)

----------------------------------------------------------------------------
(* C6: when the provider returns a recognized (title, artist) pair and the *)
(* store holds a track whose title and artist equal the pair up to letter  *)
(* case, the request is answered 200 with the id, the title and the artist *)
(* of such a stored track, as stored.                                      *)

C6_CataloguedMatched ==
    [][
    ( /\ pc = "replied"
      /\ RecognizedPair(reply)
      /\ Catalogued(tracks, reply) # {} )
    => /\ resp'.status = 200
       /\ Len(resp'.body) = 1
       /\ resp'.body[1] \in Catalogued(tracks, reply)
    ]_vars

----------------------------------------------------------------------------
(* C7: when the provider returns a recognized (title, artist) pair and no  *)
(* stored track equals it in both title and artist up to letter case, the  *)
(* request is answered 404 "No matching track in catalogue", never 200.    *)

C7_NotCatalogued ==
    [][
    ( /\ pc = "replied"
      /\ RecognizedPair(reply)
      /\ Catalogued(tracks, reply) = {} )
    => /\ resp'.status = 404
       /\ resp'.msg = "No matching track in catalogue"
    ]_vars

\* answered 404 although one stored track has the title and another the artist
C7_Witness ==
    /\ pc = "idle"
    /\ req.op = "recognize"
    /\ RecognizedPair(reply)
    /\ resp.status = 404
    /\ resp.msg = "No matching track in catalogue"
    /\ \E t \in tracks : /\ EqualUpToCase(t.title, reply.result.title.s)
                         /\ ~EqualUpToCase(t.artist, reply.result.artist.s)
    /\ \E t \in tracks : /\ ~EqualUpToCase(t.title, reply.result.title.s)
                         /\ EqualUpToCase(t.artist, reply.result.artist.s)

----------------------------------------------------------------------------
(* C8: a recognition request whose audio is missing or empty (no file      *)
(* part, an empty filename, or a file of zero bytes) is answered 400 and   *)
(* the provider is not invoked for it.                                     *)

EmptyPayload(file) == ~file.present \/ file.filename = "" \/ file.size = 0

C8_EmptyPayloadRejected ==
    [][
    ( Handling("recognize") /\ EmptyPayload(req.file) )
    => /\ resp'.status = 400
       /\ calls'.provider = 0
    ]_vars

----------------------------------------------------------------------------
(* C9: every provider failure (network error, timeout, non-success HTTP    *)
(* response, a status other than "success", a malformed body) ends the     *)
(* request with 500, never with 404.                                       *)

ProviderFailed(r) ==
    \/ r.kind \in {"network_error", "timeout", "http_error", "malformed"}
    \/ r.kind = "json" /\ r.status # "success"

C9_ProviderFailureIs500 ==
    [][
    ( pc = "replied" /\ ProviderFailed(reply) ) => resp'.status = 500
    ]_vars

----------------------------------------------------------------------------
(* C10: when the provider answers status "success" with a null result, the *)
(* request is answered 404 "Track not recognized" and the track store is   *)
(* not queried.                                                            *)

NotRecognized(r) == r.kind = "json" /\ r.status = "success" /\ r.result.kind = "null"

C10_NotRecognized ==
    [][
    ( pc = "replied" /\ NotRecognized(reply) )
    => /\ resp'.status = 404
       /\ resp'.msg = "Track not recognized"
       /\ calls'.store = 0
    ]_vars

\* answered "Track not recognized" without a query, on a table with tracks
C10_Witness ==
    /\ pc = "idle"
    /\ req.op = "recognize"
    /\ NotRecognized(reply)
    /\ resp.status = 404
    /\ calls = [provider |-> 1, store |-> 0]
    /\ tracks # {}

----------------------------------------------------------------------------
(* C11: once an Add has been answered 201, every List and every lookup of  *)
(* a recognition that comes after that answer observes the added track,    *)
(* whatever other requests run at the same time, until a Remove has        *)
(* deleted that id: the List holds the track, and the lookup of a pair     *)
(* that selects the track finds a track.                                   *)

C11_ReadAfterWrite ==
    [][
    \A c \in Threads :
        /\ Returns(c, "list") => Present \subseteq Range(threads'[c].resp.body)
        /\ ( /\ Returns(c, "recognize")
             /\ threads[c].pc = "replied"
             /\ \E t \in Present :
                    Matches(t, threads[c].reply.result.title, threads[c].reply.result.artist) )
           => /\ threads'[c].resp.status = 200
              /\ Matches(threads'[c].resp.body[1], threads[c].reply.result.title,
                         threads[c].reply.result.artist)
    ]_vars

\* a List observed an added track while a Remove of it, not yet at its DELETE, was in hand
C11_Witness ==
    \E c, d \in Threads :
        /\ threads[c].pc = "idle"
        /\ threads[c].resp.op = "list"
        /\ threads[d].pc = "selected"
        /\ \E t \in Present : /\ t \in Range(threads[c].resp.body)
                              /\ t.id = threads[d].req.track_id

----------------------------------------------------------------------------
(* C12: under any interleaving of concurrent requests a Remove either is   *)
(* answered 200 and is the call that deleted the track, or is answered     *)
(* 404 and changes nothing; so of several concurrent Remove(id) at most    *)
(* one is answered 200.                                                    *)

C12_RemoveAtomic ==
    [][
    \A c \in Threads :
        Returns(c, "remove")
        => /\ threads'[c].resp.status \in {200, 404}
           /\ threads'[c].resp.status = 200
                  => /\ threads[c].req.track_id \in Ids(tracks)
                     /\ threads[c].req.track_id \notin Ids(tracks')
           /\ threads'[c].resp.status = 404 => tracks' = tracks
    ]_vars

----------------------------------------------------------------------------
(* C13: after any sequence of Add and Remove, List returns exactly the     *)
(* tracks that were added and not removed since, each once and with the    *)
(* id, title and artist it was created with.  The tracks in the table are  *)
(* those whose id was assigned and not removed (first and second line), a  *)
(* step changes none of them and only drops the one a Remove deletes       *)
(* (third and fourth), and List returns the table, each track once.        *)

C13_ListIsAddedNotRemoved ==
    [][
    /\ Ids(tracks') = Range(assigned') \ removed'
    /\ \A t \in tracks', u \in tracks' : t.id = u.id => t = u
    /\ \A t \in tracks' : t \in tracks \/ t.id \notin Range(assigned)
    /\ \A t \in tracks : t \in tracks' \/ (Handling("remove") /\ t.id = req.track_id)
    /\ Handling("list") => /\ Range(resp'.body) = tracks
                           /\ Len(resp'.body) = Cardinality(tracks)
    ]_vars

\* a List returned the one track left after two Adds and a Remove
C13_Witness ==
    /\ pc = "idle"
    /\ resp.op = "list"
    /\ Len(resp.body) = 1
    /\ Len(assigned) = 2
    /\ Cardinality(removed) = 1

----------------------------------------------------------------------------
(* C14: when the provider answers "success" with a result whose title or   *)
(* artist is missing or null (a result with neither field included), the   *)
(* request ends with no match and without any query to the track store.    *)

NoUsableText(r) ==
    /\ r.kind = "json"
    /\ r.status = "success"
    /\ r.result.kind = "object"
    /\ ~IsStr(r.result.title) \/ ~IsStr(r.result.artist)

C14_NoTextNoQuery ==
    [][
    ( pc = "replied" /\ NoUsableText(reply) )
    => /\ resp'.status = 404
       /\ calls'.store = 0
    ]_vars

----------------------------------------------------------------------------
(* C15: every recognition request ends in one of the outcomes 400          *)
(* (ValidationError), 500 with the provider's error (ProviderError), 404   *)
(* (NotRecognized, RecognizedNotCatalogued) or 200 (Matched), for every    *)
(* provider response; none ends in an exception that no handler catches.   *)

C15_TypedOutcome ==
    resp.op = "recognize"
    => /\ resp.exception = ""
       /\ resp.status \in {200, 400, 404, 500}

----------------------------------------------------------------------------
(* C16: within one recognition request the provider is invoked at most     *)
(* once and only before any lookup, and the store is looked up at most     *)
(* once and only after a provider call that returned a recognized          *)
(* (title, artist) pair.                                                   *)

C16_LinearPipeline ==
    [][
    /\ calls'.provider <= 1
    /\ calls'.store <= 1
    /\ calls'.provider > calls.provider => Handling("recognize") /\ calls.store = 0
    /\ calls'.store > calls.store
           => /\ pc = "replied"
              /\ calls.provider = 1
              /\ RecognizedPair(reply)
    ]_vars

----------------------------------------------------------------------------
(* C17: a recognition request, whatever its outcome, leaves the stored     *)
(* tracks unchanged; only the handlers of Add and Remove change them.      *)

C17_RecognitionReadsOnly ==
    [][
    /\ req'.op = "recognize" => tracks' = tracks /\ seq' = seq
    /\ tracks' # tracks => Handling("add") \/ Handling("remove")
    ]_vars

\* a recognition was answered 200 and the table holds the tracks it held
C17_Witness ==
    /\ pc = "idle"
    /\ req.op = "recognize"
    /\ resp.status = 200
    /\ resp.body[1] \in tracks
    /\ Ids(tracks) = Range(assigned)

----------------------------------------------------------------------------
(* C18: in every reachable state every stored track has a title and an     *)
(* artist that are non-empty and without leading or trailing whitespace.   *)

IsTrimmed(s) == s # <<>> /\ s[1] \notin Whitespace /\ s[Len(s)] \notin Whitespace

C18_StoredTrimmed == \A t \in tracks : IsTrimmed(t.title) /\ IsTrimmed(t.artist)

\* two tracks are stored, the second just added
C18_Witness ==
    /\ pc = "idle"
    /\ resp.op = "add"
    /\ resp.status = 201
    /\ Cardinality(tracks) = 2

----------------------------------------------------------------------------
(* C19: Add never rejects a valid (title, artist) because an equal pair is *)
(* stored: every Add of a pair that is non-empty after trimming is         *)
(* answered 201 and adds one track, so the same pair added twice gives two *)
(* tracks with different ids; and a lookup for a pair stored twice is      *)
(* answered 200 with one of the tracks that equal it up to letter case.    *)

StoredTwice(rows, r) ==
    \E t \in rows, u \in rows :
        /\ t.id # u.id
        /\ t.title = r.result.title.s /\ t.artist = r.result.artist.s
        /\ u.title = r.result.title.s /\ u.artist = r.result.artist.s

C19_DuplicatesAllowed ==
    [][
    /\ ( Handling("add") /\ ~IsBlank(req.data.title) /\ ~IsBlank(req.data.artist) )
       => /\ resp'.status = 201
          /\ tracks \subseteq tracks'
          /\ Cardinality(Ids(tracks')) = Cardinality(tracks) + 1
    /\ ( pc = "replied" /\ RecognizedPair(reply) /\ StoredTwice(tracks, reply) )
       => /\ resp'.status = 200
          /\ Len(resp'.body) = 1
          /\ resp'.body[1] \in Catalogued(tracks, reply)
    ]_vars

\* the lookup for a pair stored twice was answered with one of the two tracks
C19_Witness ==
    /\ pc = "idle"
    /\ req.op = "recognize"
    /\ RecognizedPair(reply)
    /\ StoredTwice(tracks, reply)
    /\ resp.status = 200
    /\ resp.body[1] \in Catalogued(tracks, reply)

====
